---- MODULE Spec2Model ----
(***************************************************************************)
(* Model of src/android.rs: GlContext::create, make_current,               *)
(* make_not_current, get_proc_address, swap_buffers and Drop, running on   *)
(* one thread against an EGL driver.                                       *)
(*                                                                         *)
(* The driver is outside the repository.  Its calls are modelled by what   *)
(* the EGL interface documents: each call that can fail takes an input ok  *)
(* (the driver is willing to succeed) and fails anyway when its handles    *)
(* are not valid.  eglTerminate is modelled in both of its deployed forms, *)
(* chosen in Init: releasing every resource of the display (EGL            *)
(* specification) or counting initialisations (Android's libEGL).          *)
(***************************************************************************)
EXTENDS Integers, Sequences, FiniteSets

\* ---------------------------------------------------------------- bounds
MaxObjects == 2      \* GlContext values ever constructed (this, line 55)
MaxConfigs == 2      \* candidates eglChooseConfig returns in the model
NumDescriptors == 3  \* distinct EGLConfig descriptors the driver knows
MaxCappedObjects == 1  \* values whose create may meet a driver with more matches than the array holds

\* ------------------------------------------------------ program constants
NO_DISPLAY == 0
NO_SURFACE == 0
NO_CONTEXT == 0
DEFAULT_DISPLAY == 1   \* the handle eglGetDisplay(EGL_DEFAULT_DISPLAY) yields
EGL_FALSE == 0
EGL_TRUE == 1
ConfigCap == 64        \* config_size passed to eglChooseConfig
WINDOW_BIT == 4        \* egl::WINDOW_BIT
OPENGL_ES2_BIT == 4    \* egl::OPENGL_ES2_BIT

Apis == {"Gl", "Gles"}
\* RawWindowHandle as create sees it: the AndroidNdk variant with a window,
\* the AndroidNdk variant with a null window, any other variant.
Handles == {"AndroidNdk", "AndroidNdkNull", "Other"}
\* Names given to get_proc_address: one the driver resolves, one it does not,
\* one with an embedded NUL byte.
Symbols == {"glClear", "noSuchSymbol", "embeddedNul"}

\* Option<T>: None is the empty sequence, Some(x) is <<x>>.
None == <<>>
Some(x) == <<x>>
IsSome(opt) == Len(opt) > 0
UnwrapOr(opt, dflt) == IF IsSome(opt) THEN opt[1] ELSE dflt

\* The pixel-format and version part of the GlConfig values given to create:
\* no multisampling, 4 samples, and Some(0).
GlConfigs ==
    {[red_bits |-> 8, green_bits |-> 8, blue_bits |-> 8, alpha_bits |-> 8,
      depth_bits |-> 24, stencil_bits |-> 8, samples |-> None, version |-> <<2, 0>>],
     [red_bits |-> 5, green_bits |-> 6, blue_bits |-> 5, alpha_bits |-> 0,
      depth_bits |-> 16, stencil_bits |-> 0, samples |-> Some(4), version |-> <<3, 1>>],
     [red_bits |-> 8, green_bits |-> 8, blue_bits |-> 8, alpha_bits |-> 0,
      depth_bits |-> 0, stencil_bits |-> 0, samples |-> Some(0), version |-> <<3, 0>>]}

\* x as EGLenum stores the 32 bits of x in a u32, and the driver reads the
\* same 32 bits back as an EGLint through attribs.as_ptr() as *const EGLint:
\* for every x an EGLint holds, the driver reads x.
AsEGLenum(x) == x
AsEGLint(u) == u
BoolAsInt(b) == IF b THEN 1 ELSE 0

\* An attribute list: <<name, value>> pairs, closed by <<"NONE">>.
Attribs_SampleCountAsBuffers(c) ==
    << <<"SURFACE_TYPE", AsEGLenum(WINDOW_BIT)>>,
       <<"RENDERABLE_TYPE", AsEGLenum(OPENGL_ES2_BIT)>>,
       <<"CONFORMANT", AsEGLenum(OPENGL_ES2_BIT)>>,
       <<"RED_SIZE", AsEGLenum(c.red_bits)>>,
       <<"GREEN_SIZE", AsEGLenum(c.green_bits)>>,
       <<"BLUE_SIZE", AsEGLenum(c.blue_bits)>>,
       <<"ALPHA_SIZE", AsEGLenum(c.alpha_bits)>>,
       <<"DEPTH_SIZE", AsEGLenum(c.depth_bits)>>,
       <<"STENCIL_SIZE", AsEGLenum(c.stencil_bits)>>,
       <<"SAMPLE_BUFFERS", AsEGLenum(UnwrapOr(c.samples, 0))>>,
       <<"SAMPLES", AsEGLenum(UnwrapOr(c.samples, 0))>>,
       <<"NONE">> >>

Attribs(c) ==
    << <<"SURFACE_TYPE", AsEGLenum(WINDOW_BIT)>>,
       <<"RENDERABLE_TYPE", AsEGLenum(OPENGL_ES2_BIT)>>,
       <<"CONFORMANT", AsEGLenum(OPENGL_ES2_BIT)>>,
       <<"RED_SIZE", AsEGLenum(c.red_bits)>>,
       <<"GREEN_SIZE", AsEGLenum(c.green_bits)>>,
       <<"BLUE_SIZE", AsEGLenum(c.blue_bits)>>,
       <<"ALPHA_SIZE", AsEGLenum(c.alpha_bits)>>,
       <<"DEPTH_SIZE", AsEGLenum(c.depth_bits)>>,
       <<"STENCIL_SIZE", AsEGLenum(c.stencil_bits)>>,
       <<"SAMPLE_BUFFERS", AsEGLenum(BoolAsInt(IsSome(c.samples)))>>,
       <<"SAMPLES", AsEGLenum(UnwrapOr(c.samples, 0))>>,
       <<"NONE">> >>

CtxAttribs(c) ==
    << <<"CONTEXT_MAJOR_VERSION", AsEGLenum(c.version[1])>>,
       <<"CONTEXT_MINOR_VERSION", AsEGLenum(c.version[2])>>,
       <<"NONE">> >>

\* The list as the driver reads it.
ReadAsEGLint(attribs) ==
    [i \in 1..Len(attribs) |->
        IF Len(attribs[i]) = 2 THEN <<attribs[i][1], AsEGLint(attribs[i][2])>>
        ELSE attribs[i]]

Descriptors == 1..NumDescriptors

RECURSIVE SeqsUpTo(_, _)
SeqsUpTo(S, n) ==
    IF n = 0 THEN {<<>>}
    ELSE LET shorter == SeqsUpTo(S, n - 1)
         IN shorter \cup {Append(s, x) : s \in {t \in shorter : Len(t) = n - 1}, x \in S}

Min(a, b) == IF a < b THEN a ELSE b

\* The candidate lists the driver can hand back: distinct descriptors, in
\* any driver-defined order, never more than the caller's array holds.
ConfigLists ==
    {s \in SeqsUpTo(Descriptors, Min(MaxConfigs, ConfigCap)) :
        \A i, j \in 1..Len(s) : i # j => s[i] # s[j]}

\* A driver with more matching configurations than the caller's array holds.
ManyConfigs == [i \in 1..(ConfigCap + 1) |-> i]

MatchingLists == ConfigLists \cup {ManyConfigs}

\* ------------------------------------------------------------ the driver
\* Driver state: refs = outstanding initialisations of the default display,
\* surfs / ctxs = live surface and context handles, cur = the thread's
\* current binding, nextS / nextC = next fresh handle, log = the driver
\* calls of the operation in progress.
NoBinding == [d |-> NO_DISPLAY, s |-> NO_SURFACE, c |-> NO_CONTEXT]

Call(op, args, ret, attribs) ==
    [op |-> op, args |-> args, ret |-> ret, attribs |-> attribs]

Logged(e, op, args, ret) == [e EXCEPT !.log = Append(@, Call(op, args, ret, <<>>))]

LoggedWith(e, op, args, ret, attribs) ==
    [e EXCEPT !.log = Append(@, Call(op, args, ret, ReadAsEGLint(attribs)))]

Initialized(e, d) == d = DEFAULT_DISPLAY /\ e.refs > 0

EglGetDisplay(e, d) == Logged(e, "GetDisplay", <<>>, d)

EglGetError(e) == Logged(e, "GetError", <<>>, 0)

LastRet(e) == e.log[Len(e.log)].ret

\* Initialising a display that is initialised already only returns EGL_TRUE
\* (and counts, where initialisations are counted).
EglInitialize(e, d, ok) ==
    IF d = DEFAULT_DISPLAY /\ (ok \/ e.refs > 0)
    THEN Logged([e EXCEPT !.refs = IF e.refCounted THEN @ + 1 ELSE 1],
                "Initialize", <<d>>, EGL_TRUE)
    ELSE Logged(e, "Initialize", <<d>>, EGL_FALSE)

\* size is the length of the caller's array and matching the number of
\* configurations that match: the driver writes Min(matching, size) of
\* them and reports that number.
EglChooseConfig(e, d, attribs, size, ok, matching) ==
    LoggedWith(e, "ChooseConfig", <<d>>,
               IF ok /\ Initialized(e, d) THEN Min(matching, size) ELSE -1,
               attribs)

EglCreateWindowSurface(e, d, cfg, ok) ==
    IF ok /\ Initialized(e, d)
    THEN Logged([e EXCEPT !.surfs = @ \cup {e.nextS}, !.nextS = @ + 1],
                "CreateWindowSurface", <<d, cfg>>, e.nextS)
    ELSE Logged(e, "CreateWindowSurface", <<d, cfg>>, NO_SURFACE)

EglCreateContext(e, d, cfg, share, attribs, ok) ==
    IF ok /\ Initialized(e, d) /\ (share = NO_CONTEXT \/ share \in e.ctxs)
    THEN LoggedWith([e EXCEPT !.ctxs = @ \cup {e.nextC}, !.nextC = @ + 1],
                    "CreateContext", <<d, cfg, share>>, e.nextC, attribs)
    ELSE LoggedWith(e, "CreateContext", <<d, cfg, share>>, NO_CONTEXT, attribs)

\* Releasing (no surface, no context) needs no valid handle; binding needs
\* an initialised display and live handles.
EglMakeCurrent(e, d, draw, read, c, ok) ==
    LET release == draw = NO_SURFACE /\ read = NO_SURFACE /\ c = NO_CONTEXT
        valid == IF release THEN d = DEFAULT_DISPLAY
                 ELSE Initialized(e, d) /\ draw \in e.surfs /\ read \in e.surfs
                      /\ c \in e.ctxs
    IN IF ok /\ valid
       THEN Logged([e EXCEPT !.cur = IF release THEN NoBinding
                                     ELSE [d |-> d, s |-> draw, c |-> c]],
                   "MakeCurrent", <<d, draw, read, c>>, EGL_TRUE)
       ELSE Logged(e, "MakeCurrent", <<d, draw, read, c>>, EGL_FALSE)

EglSwapBuffers(e, d, s, ok) ==
    Logged(e, "SwapBuffers", <<d, s>>,
           IF ok /\ Initialized(e, d) /\ s \in e.surfs THEN EGL_TRUE ELSE EGL_FALSE)

EglGetProcAddress(e, sym) ==
    Logged(e, "GetProcAddress", <<>>, IF sym = "glClear" THEN 1 ELSE 0)

EglDestroySurface(e, d, s) ==
    IF Initialized(e, d) /\ s \in e.surfs
    THEN Logged([e EXCEPT !.surfs = @ \ {s}], "DestroySurface", <<d, s>>, EGL_TRUE)
    ELSE Logged(e, "DestroySurface", <<d, s>>, EGL_FALSE)

EglDestroyContext(e, d, c) ==
    IF Initialized(e, d) /\ c \in e.ctxs
    THEN Logged([e EXCEPT !.ctxs = @ \ {c}], "DestroyContext", <<d, c>>, EGL_TRUE)
    ELSE Logged(e, "DestroyContext", <<d, c>>, EGL_FALSE)

\* eglTerminate: with counted initialisations the display stays up while
\* another initialisation is outstanding; otherwise every surface and
\* context of the display is released with it.
EglTerminate(e, d) ==
    LET left == IF e.refCounted /\ e.refs > 0 THEN e.refs - 1 ELSE 0
    IN IF d # DEFAULT_DISPLAY THEN Logged(e, "Terminate", <<d>>, EGL_FALSE)
       ELSE IF left > 0 THEN Logged([e EXCEPT !.refs = left], "Terminate", <<d>>, EGL_TRUE)
       ELSE Logged([e EXCEPT !.refs = 0, !.surfs = {}, !.ctxs = {}],
                   "Terminate", <<d>>, EGL_TRUE)
\* ------------------------------------------------------------- GlContext
\* A GlContext value: the three fields of the struct, plus st, the value's
\* place in its life: "building" inside create, "live" once create returned
\* Ok(this), "failed" when create returned Err and dropped it, "dropped"
\* after its owner released it.
NewGlContext ==
    [display |-> NO_DISPLAY, context |-> NO_CONTEXT, surface |-> NO_SURFACE,
     st |-> "building"]

ApiSupported_Any(api) == TRUE

ApiSupported(api) == api = "Gles"

IsAndroidNdk(handle) == handle \in {"AndroidNdk", "AndroidNdkNull"}

WindowIsNull_Never(handle) == FALSE

WindowIsNull(handle) == handle = "AndroidNdkNull"

NextConfig_FromEnd(cfgs, i) == IF i < Len(cfgs) THEN cfgs[Len(cfgs) - i] ELSE 0

NextConfig_OnlyFirst(cfgs, i) == IF i < 1 /\ Len(cfgs) > 0 THEN cfgs[1] ELSE 0

\* configs.next() on the iterator over config[..num_config]: the candidate
\* after the i already taken, or 0 for None.
NextConfig_RetryLast(cfgs, i) ==
    IF i <= Len(cfgs) /\ Len(cfgs) > 0 THEN cfgs[Min(i + 1, Len(cfgs))] ELSE 0

NextConfig(cfgs, i) == IF i < Len(cfgs) THEN cfgs[i + 1] ELSE 0

\* The tests create makes on what the driver returned.
DisplayFailed(d) == d = NO_DISPLAY

InitializeFailed_Never(r) == FALSE

InitializeFailed(r) == r = EGL_FALSE

ChooseConfigFailed_Never(r) == FALSE

ChooseConfigFailed(r) == r = -1

SurfaceFailed(s) == s = NO_SURFACE

ContextFailed_Never(c) == FALSE

ContextFailed(c) == c = NO_CONTEXT

SharedContext_None(os, share) == NO_CONTEXT

SharedContext(os, share) ==
    IF share = 0 THEN NO_CONTEXT ELSE os[share].context

GlMakeCurrent(e, this, ok) ==
    LET e1 == EglMakeCurrent(e, this.display, this.surface, this.surface, this.context, ok)
    IN IF LastRet(e1) = EGL_FALSE THEN EglGetError(e1) ELSE e1

GlMakeNotCurrent_BindsSelf(e, this, ok) ==
    LET e1 == EglMakeCurrent(e, this.display, this.surface, this.surface, this.context, ok)
    IN IF LastRet(e1) = EGL_FALSE THEN EglGetError(e1) ELSE e1

GlMakeNotCurrent(e, this, ok) ==
    LET e1 == EglMakeCurrent(e, this.display, NO_SURFACE, NO_SURFACE, NO_CONTEXT, ok)
    IN IF LastRet(e1) = EGL_FALSE THEN EglGetError(e1) ELSE e1

GlSwapBuffers_UnbindOnFailure(e, this, ok) ==
    LET e1 == EglSwapBuffers(e, this.display, this.surface, ok)
    IN IF LastRet(e1) = EGL_FALSE
       THEN EglMakeCurrent(EglGetError(e1), this.display, NO_SURFACE, NO_SURFACE,
                           NO_CONTEXT, TRUE)
       ELSE e1

GlSwapBuffers(e, this, ok) ==
    LET e1 == EglSwapBuffers(e, this.display, this.surface, ok)
    IN IF LastRet(e1) = EGL_FALSE THEN EglGetError(e1) ELSE e1

GlDrop_ContextFirst(e, this, ok) ==
    IF this.display # NO_DISPLAY
    THEN LET e1 == GlMakeNotCurrent(e, this, ok)
             e2 == IF this.context # NO_CONTEXT
                   THEN EglDestroyContext(e1, this.display, this.context) ELSE e1
             e3 == IF this.surface # NO_SURFACE
                   THEN EglDestroySurface(e2, this.display, this.surface) ELSE e2
         IN [egl |-> EglTerminate(e3, this.display),
             this |-> [this EXCEPT !.surface = NO_SURFACE]]
    ELSE [egl |-> e, this |-> this]

GlDrop_UnbindOwnOnly(e, this, ok) ==
    IF this.display # NO_DISPLAY
    THEN LET e1 == IF e.cur.c = this.context THEN GlMakeNotCurrent(e, this, ok) ELSE e
             e2 == IF this.surface # NO_SURFACE
                   THEN EglDestroySurface(e1, this.display, this.surface) ELSE e1
             e3 == IF this.context # NO_CONTEXT
                   THEN EglDestroyContext(e2, this.display, this.context) ELSE e2
         IN [egl |-> EglTerminate(e3, this.display),
             this |-> [this EXCEPT !.surface = NO_SURFACE]]
    ELSE [egl |-> e, this |-> this]

GlDrop_NoSurfaceTest(e, this, ok) ==
    IF this.display # NO_DISPLAY
    THEN LET e1 == GlMakeNotCurrent(e, this, ok)
             e2 == EglDestroySurface(e1, this.display, this.surface)
             e3 == IF this.context # NO_CONTEXT
                   THEN EglDestroyContext(e2, this.display, this.context) ELSE e2
         IN [egl |-> EglTerminate(e3, this.display),
             this |-> [this EXCEPT !.surface = NO_SURFACE]]
    ELSE [egl |-> e, this |-> this]

\* Drop for GlContext: the driver state and the value after drop.
GlDrop(e, this, ok) ==
    IF this.display # NO_DISPLAY
    THEN LET e1 == GlMakeNotCurrent(e, this, ok)
             e2 == IF this.surface # NO_SURFACE
                   THEN EglDestroySurface(e1, this.display, this.surface) ELSE e1
             e3 == IF this.context # NO_CONTEXT
                   THEN EglDestroyContext(e2, this.display, this.context) ELSE e2
         IN [egl |-> EglTerminate(e3, this.display),
             this |-> [this EXCEPT !.surface = NO_SURFACE]]
    ELSE [egl |-> e, this |-> this]

\* ----------------------------------------------------------------- state
VARIABLES
    egl,       \* the driver's state and the calls of the latest operation
    objs,      \* the GlContext values constructed so far, in order
    pc,        \* position of the thread inside create, or "idle"
    conf,      \* the GlConfig (api, share) and window handle of the create call
    configs,   \* config[..num_config] of the create call
    taken,     \* how many candidates the iterator configs has yielded
    config,    \* the local config of the create call
    result,    \* what the latest create call returned
    lastOp,    \* the latest operation and the value it ran on
    prevOp,    \* the operation before the latest one
    shareOf,   \* per value, conf.share of the create call that built it
    panicked   \* the thread is unwinding from a panic

vars == <<egl, objs, pc, conf, configs, taken, config, result, lastOp, prevOp, shareOf, panicked>>

NoConf ==
    [api |-> "Gles", handle |-> "AndroidNdk", share |-> 0,
     gl |-> CHOOSE g \in GlConfigs : g.samples = None]

Init ==
    /\ egl \in {[refCounted |-> rc, refs |-> 0, surfs |-> {}, ctxs |-> {},
                 cur |-> NoBinding, nextS |-> 1, nextC |-> 1, log |-> <<>>]
                : rc \in BOOLEAN}
    /\ objs = <<>>
    /\ pc = "idle"
    /\ conf = NoConf
    /\ configs = <<>>
    /\ taken = 0
    /\ config = 0
    /\ result = "none"
    /\ lastOp = [name |-> "none", obj |-> 0]
    /\ prevOp = [name |-> "none", obj |-> 0]
    /\ shareOf = <<>>
    /\ panicked = FALSE

Fresh(e) == [e EXCEPT !.log = <<>>]

This == objs[Len(objs)]

LiveObjs == {i \in 1..Len(objs) : objs[i].st = "live"}

\* return Err(e) from inside create once this exists: this goes out of
\* scope and is dropped.
ReturnErr(e, this, err, okUnbind) ==
    LET d == GlDrop(e, this, okUnbind)
    IN /\ egl' = d.egl
       /\ objs' = [objs EXCEPT ![Len(objs)] = [d.this EXCEPT !.st = "failed"]]
       /\ result' = err
       /\ pc' = "idle"

\* create, lines 17-61: the api match, the handle checks, the value this.
CreateEnter(api, handle, share, gl) ==
    /\ pc = "idle" /\ ~panicked
    /\ share \in {0} \cup LiveObjs
    /\ egl' = Fresh(egl)
    /\ conf' = [api |-> api, handle |-> handle, share |-> share, gl |-> gl]
    /\ configs' = <<>> /\ taken' = 0 /\ config' = 0
    /\ prevOp' = lastOp
    /\ UNCHANGED panicked
    /\ IF ~ApiSupported(api)
       THEN /\ result' = "ApiNotSupported"
            /\ lastOp' = [name |-> "create", obj |-> 0]
            /\ UNCHANGED <<objs, pc, shareOf>>
       ELSE IF ~IsAndroidNdk(handle) \/ WindowIsNull(handle)
       THEN /\ result' = "InvalidWindowHandle"
            /\ lastOp' = [name |-> "create", obj |-> 0]
            /\ UNCHANGED <<objs, pc, shareOf>>
       ELSE /\ Len(objs) < MaxObjects
            /\ objs' = Append(objs, NewGlContext)
            /\ shareOf' = Append(shareOf, share)
            /\ result' = "none"
            /\ lastOp' = [name |-> "create", obj |-> Len(objs) + 1]
            /\ pc' = "GetDisplay"

\* create, lines 63-67
CreateGetDisplay(d) ==
    /\ pc = "GetDisplay"
    /\ LET e1 == EglGetDisplay(egl, d)
           this == [This EXCEPT !.display = d]
       IN IF DisplayFailed(this.display)
          THEN ReturnErr(e1, this, "CreationFailed", TRUE)
          ELSE /\ egl' = e1
               /\ objs' = [objs EXCEPT ![Len(objs)] = this]
               /\ pc' = "Initialize"
               /\ UNCHANGED result
    /\ UNCHANGED <<conf, configs, taken, config, lastOp, prevOp, shareOf, panicked>>

\* create, lines 69-76
CreateInitialize(ok, okUnbind) ==
    /\ pc = "Initialize"
    /\ LET e1 == EglInitialize(egl, This.display, ok)
       IN IF InitializeFailed(LastRet(e1))
          THEN ReturnErr(EglGetError(e1), This, "CreationFailed", okUnbind)
          ELSE /\ egl' = e1
               /\ pc' = "ChooseConfig"
               /\ UNCHANGED <<objs, result>>
    /\ UNCHANGED <<conf, configs, taken, config, lastOp, prevOp, shareOf, panicked>>

\* create, lines 78-100: cfgs are the configurations that match, of which
\* the driver writes the first num_config to the array of ConfigCap slots.
CreateChooseConfig(ok, cfgs, okUnbind) ==
    /\ pc = "ChooseConfig"
    /\ Len(cfgs) > ConfigCap => Len(objs) <= MaxCappedObjects
    /\ LET e1 == EglChooseConfig(egl, This.display, Attribs(conf.gl), ConfigCap, ok,
                                   Len(cfgs))
       IN IF ChooseConfigFailed(LastRet(e1))
          THEN /\ ReturnErr(EglGetError(e1), This, "CreationFailed", okUnbind)
               /\ UNCHANGED configs
          ELSE IF LastRet(e1) = 0
          THEN /\ ReturnErr(e1, This, "CreationFailed", okUnbind)
               /\ UNCHANGED configs
          ELSE /\ egl' = e1
               /\ configs' = SubSeq(cfgs, 1, LastRet(e1))
               /\ pc' = "Bind"
               /\ UNCHANGED <<objs, result>>
    /\ UNCHANGED <<conf, taken, config, lastOp, prevOp, shareOf, panicked>>

\* create, lines 102-133: one iteration of the loop.
CreateBind(ok, okUnbind) ==
    /\ pc = "Bind"
    /\ LET cfg == NextConfig(configs, taken)
       IN IF cfg = 0
          THEN /\ ReturnErr(egl, This, "CreationFailed", okUnbind)
               /\ UNCHANGED <<taken, config>>
          ELSE LET e1 == EglCreateWindowSurface(egl, This.display, cfg, ok)
                   this == [This EXCEPT !.surface = LastRet(e1)]
               IN /\ taken' = taken + 1
                  /\ config' = cfg
                  /\ objs' = [objs EXCEPT ![Len(objs)] = this]
                  /\ UNCHANGED result
                  /\ IF SurfaceFailed(this.surface)
                     THEN egl' = EglGetError(e1) /\ pc' = "Bind"
                     ELSE egl' = e1 /\ pc' = "CreateContext"
    /\ UNCHANGED <<conf, configs, lastOp, prevOp, shareOf, panicked>>

\* create, lines 135-152
CreateContext(ok, okUnbind) ==
    /\ pc = "CreateContext"
    /\ LET e1 == EglCreateContext(egl, This.display, config,
                                  SharedContext(objs, conf.share),
                                  CtxAttribs(conf.gl), ok)
           this == [This EXCEPT !.context = LastRet(e1)]
       IN IF ContextFailed(this.context)
          THEN ReturnErr(EglGetError(e1), this, "CreationFailed", okUnbind)
          ELSE /\ egl' = e1
               /\ objs' = [objs EXCEPT ![Len(objs)] = this]
               /\ pc' = "MakeCurrent"
               /\ UNCHANGED result
    /\ UNCHANGED <<conf, configs, taken, config, lastOp, prevOp, shareOf, panicked>>

\* create, lines 154-156: this.make_current(); Ok(this)
CreateReturnOk(ok) ==
    /\ pc = "MakeCurrent"
    /\ egl' = GlMakeCurrent(egl, This, ok)
    /\ objs' = [objs EXCEPT ![Len(objs)].st = "live"]
    /\ result' = "Ok"
    /\ pc' = "idle"
    /\ UNCHANGED <<conf, configs, taken, config, lastOp, prevOp, shareOf, panicked>>
\* A method call on a value its owner holds: the fields stay as they are
\* (the methods take &self); the locals of the last create call are gone.
Method(o, name) ==
    /\ pc = "idle" /\ ~panicked
    /\ o \in LiveObjs
    /\ lastOp' = [name |-> name, obj |-> o]
    /\ prevOp' = lastOp
    /\ conf' = NoConf /\ configs' = <<>> /\ taken' = 0 /\ config' = 0
    /\ UNCHANGED <<objs, pc, result, shareOf>>

MakeCurrent(o, ok) ==
    /\ Method(o, "make_current")
    /\ egl' = GlMakeCurrent(Fresh(egl), objs[o], ok)
    /\ UNCHANGED panicked

MakeNotCurrent(o, ok) ==
    /\ Method(o, "make_not_current")
    /\ egl' = GlMakeNotCurrent(Fresh(egl), objs[o], ok)
    /\ UNCHANGED panicked

\* CString::new(symbol).unwrap() panics on a name with an embedded NUL.
GetProcAddress(o, sym) ==
    /\ Method(o, "get_proc_address")
    /\ IF sym = "embeddedNul"
       THEN egl' = Fresh(egl) /\ panicked' = TRUE
       ELSE egl' = EglGetProcAddress(Fresh(egl), sym) /\ UNCHANGED panicked

SwapBuffers(o, ok) ==
    /\ Method(o, "swap_buffers")
    /\ egl' = GlSwapBuffers(Fresh(egl), objs[o], ok)
    /\ UNCHANGED panicked

\* The owner releases the value: drop runs, once.
Drop(o, ok) ==
    /\ pc = "idle" /\ ~panicked
    /\ o \in LiveObjs
    /\ LET d == GlDrop(Fresh(egl), objs[o], ok)
       IN /\ egl' = d.egl
          /\ objs' = [objs EXCEPT ![o] = [d.this EXCEPT !.st = "dropped"]]
    /\ lastOp' = [name |-> "drop", obj |-> o]
    /\ prevOp' = lastOp
    /\ conf' = NoConf /\ configs' = <<>> /\ taken' = 0 /\ config' = 0
    /\ UNCHANGED <<pc, result, shareOf, panicked>>

Next ==
    \/ \E api \in Apis, h \in Handles, sh \in 0..MaxObjects, gl \in GlConfigs :
          CreateEnter(api, h, sh, gl)
    \/ \E d \in {NO_DISPLAY, DEFAULT_DISPLAY} : CreateGetDisplay(d)
    \/ \E ok, okU \in BOOLEAN : CreateInitialize(ok, okU)
    \/ \E ok, okU \in BOOLEAN, cfgs \in MatchingLists :
          CreateChooseConfig(ok, cfgs, okU)
    \/ \E ok, okU \in BOOLEAN : CreateBind(ok, okU)
    \/ \E ok, okU \in BOOLEAN : CreateContext(ok, okU)
    \/ \E ok \in BOOLEAN : CreateReturnOk(ok)
    \/ \E o \in 1..MaxObjects, ok \in BOOLEAN : MakeCurrent(o, ok)
    \/ \E o \in 1..MaxObjects, ok \in BOOLEAN : MakeNotCurrent(o, ok)
    \/ \E o \in 1..MaxObjects, sym \in Symbols : GetProcAddress(o, sym)
    \/ \E o \in 1..MaxObjects, ok \in BOOLEAN : SwapBuffers(o, ok)
    \/ \E o \in 1..MaxObjects, ok \in BOOLEAN : Drop(o, ok)

Spec == Init /\ [][Next]_vars

\* The steps inside one call of create. create is straight-line code around
\* one loop over a finite iterator and every driver call returns, so a call
\* that has started keeps taking its steps.
CreateStep ==
    \/ \E d \in {NO_DISPLAY, DEFAULT_DISPLAY} : CreateGetDisplay(d)
    \/ \E ok, okU \in BOOLEAN : CreateInitialize(ok, okU)
    \/ \E ok, okU \in BOOLEAN, cfgs \in MatchingLists :
          CreateChooseConfig(ok, cfgs, okU)
    \/ \E ok, okU \in BOOLEAN : CreateBind(ok, okU)
    \/ \E ok, okU \in BOOLEAN : CreateContext(ok, okU)
    \/ \E ok \in BOOLEAN : CreateReturnOk(ok)

FairSpec == Spec /\ WF_vars(CreateStep)

TypeOK ==
    /\ pc \in {"idle", "GetDisplay", "Initialize", "ChooseConfig", "Bind",
               "CreateContext", "MakeCurrent"}
    /\ Len(objs) <= MaxObjects
    /\ result \in {"none", "Ok", "ApiNotSupported", "InvalidWindowHandle", "CreationFailed"}
\* ---------------------------------------------------------------- claims
\* What the formulas read from the log of the latest operation.
IsBind(c) == c.op = "CreateWindowSurface"
IsCreateContext(c) == c.op = "CreateContext"
IsTeardownCall(c) == c.op \in {"MakeCurrent", "DestroySurface", "DestroyContext", "Terminate"}

Binds == SelectSeq(egl.log, IsBind)
ContextCalls == SelectSeq(egl.log, IsCreateContext)
TeardownCalls(log) == SelectSeq(log, IsTeardownCall)

OpArgs(log) == [i \in 1..Len(log) |-> <<log[i].op, log[i].args>>]

InCreate == lastOp.name = "create"
CreateReturned == lastOp.name = "create" /\ pc = "idle"

\* C1: when the first K candidates fail surface binding and candidate K+1
\* binds, create has issued exactly K+1 CreateWindowSurface calls, for
\* candidates 1..K+1 of the list in list order, then calls CreateContext
\* once, with the descriptor of candidate K+1, and returns Ok when that
\* context creation succeeds.
C1_FirstBindWins ==
    /\ InCreate =>
          /\ Len(Binds) <= Len(configs)
          /\ \A i \in 1..Len(Binds) : Binds[i].args[2] = configs[i]
          /\ \A i \in 1..(Len(Binds) - 1) : Binds[i].ret = NO_SURFACE
    /\ (CreateReturned /\ \E i \in 1..Len(Binds) : Binds[i].ret # NO_SURFACE) =>
          LET k1 == CHOOSE i \in 1..Len(Binds) : Binds[i].ret # NO_SURFACE
          IN /\ Len(Binds) = k1
             /\ Len(ContextCalls) = 1
             /\ ContextCalls[1].args[2] = configs[k1]
             /\ (ContextCalls[1].ret # NO_CONTEXT => result = "Ok")

\* A create that returned Ok after one failed bind, on a list whose order
\* is not the descriptors' numeric order.
C1_Witness ==
    /\ CreateReturned /\ result = "Ok"
    /\ configs = <<3, 1>>
    /\ Len(Binds) = 2 /\ Binds[1].ret = NO_SURFACE /\ Binds[2].ret # NO_SURFACE
    /\ ContextCalls[1].args[2] = 1

\* C2: in the step that drops a value create returned, the driver calls
\* other than GetError are MakeCurrent(display, none, none, none),
\* DestroySurface(display, surface), DestroyContext(display, context),
\* Terminate(display), in that order, each once, whatever was called on the
\* value before.
ExpectedTeardown(this) ==
    << <<"MakeCurrent", <<this.display, NO_SURFACE, NO_SURFACE, NO_CONTEXT>> >>,
       <<"DestroySurface", <<this.display, this.surface>> >>,
       <<"DestroyContext", <<this.display, this.context>> >>,
       <<"Terminate", <<this.display>> >> >>

IsNotGetError(c) == c.op # "GetError"

DroppedInStep(o) ==
    o \in LiveObjs /\ o <= Len(objs') /\ objs'[o].st = "dropped"

C2_TeardownOrder ==
    [][\A o \in 1..MaxObjects :
          DroppedInStep(o) =>
             /\ OpArgs(SelectSeq(egl'.log, IsNotGetError)) = ExpectedTeardown(objs[o])
             /\ objs[o].surface # NO_SURFACE /\ objs[o].context # NO_CONTEXT]_vars

\* A value dropped right after make_not_current was called on it.
C2_Witness ==
    /\ lastOp.name = "drop" /\ prevOp = [name |-> "make_not_current", obj |-> lastOp.obj]
    /\ objs[lastOp.obj].st = "dropped"
    /\ Len(TeardownCalls(egl.log)) = 4

\* C3: when create got N > 0 candidates and no bind succeeded, it returns
\* CreationFailed after exactly N CreateWindowSurface calls, one per
\* candidate in list order, with no CreateContext call and no MakeCurrent
\* call that binds a context.
C3_AllBindsFail ==
    (CreateReturned /\ configs # <<>> /\ \A i \in 1..Len(Binds) : Binds[i].ret = NO_SURFACE) =>
        /\ result = "CreationFailed"
        /\ [i \in 1..Len(Binds) |-> Binds[i].args[2]] = configs
        /\ ContextCalls = <<>>
        /\ \A i \in 1..Len(egl.log) :
              egl.log[i].op = "MakeCurrent" => egl.log[i].args[4] = NO_CONTEXT

C3_Witness ==
    /\ CreateReturned /\ result = "CreationFailed"
    /\ Len(configs) = 2 /\ Len(Binds) = 2
    /\ \A i \in 1..2 : Binds[i].ret = NO_SURFACE
\* C4: whenever create returns Ok, the thread's current binding is the
\* returned value's (surface, surface, context) on its display, whatever
\* the driver answered to the MakeCurrent call inside create.
C4_OkIsCurrent ==
    (CreateReturned /\ result = "Ok") =>
        LET this == objs[lastOp.obj]
        IN egl.cur = [d |-> this.display, s |-> this.surface, c |-> this.context]

\* The driver's resources of a value are live: its display is initialised
\* and its surface and context handles are valid.
ObjLive(e, this) ==
    /\ Initialized(e, this.display)
    /\ this.surface \in e.surfs
    /\ this.context \in e.ctxs

CanBeMadeCurrent(e, this) ==
    LastRet(EglMakeCurrent(e, this.display, this.surface, this.surface, this.context, TRUE))
        = EGL_TRUE

\* C5: the step that drops a value built with share = p, p a value its
\* owner still holds and whose driver resources are live, leaves the
\* display of p initialised and the surface and context of p live, and p
\* can still be made current.
C5_ChildTeardownKeepsParent ==
    [][\A c \in 1..MaxObjects :
          (/\ DroppedInStep(c)
           /\ shareOf[c] # 0
           /\ objs[shareOf[c]].st = "live"
           /\ ObjLive(egl, objs[shareOf[c]]))
          => /\ objs'[shareOf[c]] = objs[shareOf[c]]
             /\ ObjLive(egl', objs'[shareOf[c]])
             /\ CanBeMadeCurrent(egl', objs'[shareOf[c]])]_vars

\* C6: every value create returned has display, surface and context all
\* non-sentinel; no step changes a field of a value that stays with its
\* owner; create returns Ok with the value it built or an error with no
\* value.
Errors == {"ApiNotSupported", "InvalidWindowHandle", "CreationFailed"}

FullyBuilt(this) ==
    this.display # NO_DISPLAY /\ this.surface # NO_SURFACE /\ this.context # NO_CONTEXT

ReturnIsAllOrNothing ==
    CreateReturned =>
        \/ result = "Ok" /\ lastOp.obj # 0 /\ objs[lastOp.obj].st = "live"
        \/ result \in Errors /\ lastOp.obj = 0
        \/ result \in Errors /\ lastOp.obj # 0 /\ objs[lastOp.obj].st = "failed"

C6_NoPartialObject ==
    [][/\ \A o \in 1..Len(objs') : objs'[o].st = "live" => FullyBuilt(objs'[o])
       /\ \A o \in LiveObjs : objs'[o].st = "live" => objs'[o] = objs[o]
       /\ ReturnIsAllOrNothing']_vars

\* A value still whole after swap_buffers, next to a create that failed.
C6_Witness ==
    /\ lastOp.name = "swap_buffers" /\ objs[lastOp.obj].st = "live"
    /\ FullyBuilt(objs[lastOp.obj])
    /\ \E o \in 1..Len(objs) : objs[o].st = "failed"

\* C7: a create that returns an error tears down what it built, once and
\* last: nothing when no value was built or no display was obtained;
\* unbind and Terminate when the display was obtained and no surface was
\* bound; unbind, DestroySurface of the bound surface and Terminate when
\* the context creation failed; never DestroyContext.
Unbind(d) == <<"MakeCurrent", <<d, NO_SURFACE, NO_SURFACE, NO_CONTEXT>> >>

EndsWith(log, tail) ==
    /\ Len(tail) <= Len(log)
    /\ SubSeq(log, Len(log) - Len(tail) + 1, Len(log)) = tail

C7_FailureTeardown ==
    (CreateReturned /\ result \in Errors) =>
        LET calls == OpArgs(SelectSeq(egl.log, IsNotGetError))
            tear == OpArgs(TeardownCalls(egl.log))
        IN IF lastOp.obj = 0 THEN egl.log = <<>>
           ELSE LET d == egl.log[1].ret
                IN /\ EndsWith(calls, tear)
                   /\ IF d = NO_DISPLAY THEN tear = <<>>
                      ELSE IF \A i \in 1..Len(Binds) : Binds[i].ret = NO_SURFACE
                      THEN tear = <<Unbind(d), <<"Terminate", <<d>> >> >>
                      ELSE /\ ContextCalls[1].ret = NO_CONTEXT
                           /\ tear = <<Unbind(d),
                                       <<"DestroySurface", <<d, Binds[Len(Binds)].ret>> >>,
                                       <<"Terminate", <<d>> >> >>

\* A create whose context creation failed after a successful bind.
C7_Witness ==
    /\ CreateReturned /\ result = "CreationFailed"
    /\ Len(ContextCalls) = 1 /\ ContextCalls[1].ret = NO_CONTEXT
    /\ Len(TeardownCalls(egl.log)) = 3

\* C8: create with api = Gl returns ApiNotSupported, whatever the window
\* handle, builds no value and makes no driver call.
C8_GlRejected ==
    (InCreate /\ conf.api = "Gl") =>
        /\ pc = "idle"
        /\ result = "ApiNotSupported"
        /\ egl.log = <<>>
        /\ lastOp.obj = 0

\* Gl asked with a valid window, while another value is live.
C8_Witness ==
    /\ CreateReturned /\ conf.api = "Gl" /\ conf.handle = "AndroidNdk"
    /\ result = "ApiNotSupported"
    /\ LiveObjs # {}

\* C9: create with api = Gles and a handle of another variant, or with a
\* null window, returns InvalidWindowHandle, makes no driver call, builds no
\* value and leaves the driver and every value as they were; no driver call
\* of a create is made before the handle passed both checks.
C9_BadHandleRejected ==
    [][(lastOp'.name = "create") =>
          /\ (conf'.api = "Gles" /\ conf'.handle # "AndroidNdk") =>
                /\ pc' = "idle"
                /\ result' = "InvalidWindowHandle"
                /\ egl' = Fresh(egl)
                /\ objs' = objs
                /\ lastOp'.obj = 0
          /\ egl'.log # <<>> => conf'.handle = "AndroidNdk"]_vars

C9_Witness ==
    /\ CreateReturned /\ conf.api = "Gles" /\ conf.handle = "AndroidNdkNull"
    /\ result = "InvalidWindowHandle"
    /\ LiveObjs # {}

\* C10: when GetDisplay returned the no-display sentinel or Initialize
\* reported failure, create returns CreationFailed without calling
\* ChooseConfig, CreateWindowSurface or CreateContext, and the value it
\* built has no surface and no context.
DisplayStepFailed ==
    \E i \in 1..Len(egl.log) :
        \/ egl.log[i].op = "GetDisplay" /\ egl.log[i].ret = NO_DISPLAY
        \/ egl.log[i].op = "Initialize" /\ egl.log[i].ret = EGL_FALSE

C10_DisplayFailure ==
    (InCreate /\ DisplayStepFailed) =>
        /\ pc = "idle"
        /\ result = "CreationFailed"
        /\ \A i \in 1..Len(egl.log) :
              egl.log[i].op \notin {"ChooseConfig", "CreateWindowSurface", "CreateContext"}
        /\ objs[lastOp.obj].st = "failed"
        /\ objs[lastOp.obj].surface = NO_SURFACE
        /\ objs[lastOp.obj].context = NO_CONTEXT

\* Initialisation failed on a display that was obtained.
C10_Witness ==
    /\ CreateReturned /\ result = "CreationFailed"
    /\ \E i \in 1..Len(egl.log) :
          egl.log[i].op = "Initialize" /\ egl.log[i].ret = EGL_FALSE
\* C11: when ChooseConfig reported failure or returned zero candidates,
\* create returns CreationFailed without a CreateWindowSurface or
\* CreateContext call.
EnumerationFailed ==
    \E i \in 1..Len(egl.log) :
        egl.log[i].op = "ChooseConfig" /\ egl.log[i].ret \in {-1, 0}

C11_EnumerationFailure ==
    (InCreate /\ EnumerationFailed) =>
        /\ pc = "idle"
        /\ result = "CreationFailed"
        /\ Binds = <<>>
        /\ ContextCalls = <<>>

\* ChooseConfig succeeded with zero candidates.
C11_Witness ==
    /\ CreateReturned /\ result = "CreationFailed"
    /\ \E i \in 1..Len(egl.log) :
          egl.log[i].op = "ChooseConfig" /\ egl.log[i].ret = 0
\* C12: a make_current, make_not_current or swap_buffers call whose driver
\* call fails returns normally: it makes that one driver call and GetError
\* and nothing else, changes no field of any value and nothing in the
\* driver, and leaves the value with its owner, open to every later
\* operation and to the four-call teardown.
SwallowingOps == {"make_current", "make_not_current", "swap_buffers"}

DriverFailedInStep == egl'.log # <<>> /\ egl'.log[1].ret = EGL_FALSE

C12_FailureSwallowed ==
    [][(pc = "idle" /\ pc' = "idle" /\ lastOp'.name \in SwallowingOps
        /\ lastOp'.obj \in LiveObjs /\ DriverFailedInStep) =>
          LET o == lastOp'.obj
          IN /\ Len(egl'.log) = 2
             /\ egl'.log[1].op \in {"MakeCurrent", "SwapBuffers"}
             /\ egl'.log[2].op = "GetError"
             /\ Fresh(egl') = Fresh(egl)
             /\ objs' = objs
             /\ ~panicked'
             /\ o \in LiveObjs'
             /\ OpArgs(SelectSeq(GlDrop(Fresh(egl'), objs'[o], TRUE).egl.log, IsNotGetError))
                   = ExpectedTeardown(objs[o])]_vars

\* swap_buffers failed on a value that stays live.
C12_Witness ==
    /\ lastOp.name = "swap_buffers" /\ lastOp.obj \in LiveObjs
    /\ Len(egl.log) = 2 /\ egl.log[1].op = "SwapBuffers" /\ egl.log[1].ret = EGL_FALSE
    /\ ~panicked
\* C13: a make_current call the driver accepts leaves the thread bound to
\* (surface, surface, context) of the value, as does the one inside create;
\* a make_not_current call the driver accepts leaves the thread with no
\* binding; swap_buffers and get_proc_address leave the binding as it was.
\* By induction the binding after any sequence of accepted calls on one
\* value is that of the last of the two binding calls, and repeating either
\* changes nothing.
BindingOf(this) == [d |-> this.display, s |-> this.surface, c |-> this.context]

DriverAcceptedInStep == egl'.log # <<>> /\ egl'.log[1].ret = EGL_TRUE

C13_BindingFollowsLastCall ==
    [][/\ (pc = "idle" /\ pc' = "idle" /\ lastOp'.name = "make_current"
           /\ DriverAcceptedInStep)
          => egl'.cur = BindingOf(objs[lastOp'.obj])
       /\ (pc = "idle" /\ pc' = "idle" /\ lastOp'.name = "make_not_current"
           /\ DriverAcceptedInStep)
          => egl'.cur = NoBinding
       /\ (pc = "idle" /\ lastOp'.name \in {"swap_buffers", "get_proc_address"})
          => egl'.cur = egl.cur
       /\ (pc = "MakeCurrent" /\ pc' = "idle"
           /\ egl'.log[Len(egl'.log)].op = "MakeCurrent"
           /\ LastRet(egl') = EGL_TRUE)
          => egl'.cur = BindingOf(objs'[lastOp'.obj])]_vars

\* swap_buffers after make_not_current on the same value: still unbound.
C13_Witness ==
    /\ lastOp.name = "swap_buffers" /\ lastOp.obj \in LiveObjs
    /\ prevOp = [name |-> "make_not_current", obj |-> lastOp.obj]
    /\ egl.log[1].ret = EGL_TRUE
    /\ egl.cur = NoBinding
\* C17: the step that drops a value whose display is not the sentinel,
\* by its owner or as the cleanup of a failing create, leaves the thread with no current binding, whatever was current before
\* (the value's own binding, none, or another value's), unless the driver
\* refused the unbind.
UnbindRefused(log) ==
    \E i \in 1..Len(log) : log[i].op = "MakeCurrent" /\ log[i].ret = EGL_FALSE

\* The cleanup drop of a create that returns an error.
FailedInStep(o) ==
    o <= Len(objs) /\ objs[o].st = "building" /\ objs'[o].st = "failed"

C17_NoBindingAfterTeardown ==
    [][\A o \in 1..MaxObjects :
          /\ (DroppedInStep(o) /\ objs[o].display # NO_DISPLAY) =>
                 egl'.cur = NoBinding \/ UnbindRefused(egl'.log)
          /\ (FailedInStep(o) /\ objs'[o].display # NO_DISPLAY) =>
                 egl'.cur = NoBinding \/ UnbindRefused(egl'.log)]_vars

\* A value dropped right after another value was made current.
C17_Witness ==
    /\ lastOp.name = "drop" /\ prevOp.name = "make_current"
    /\ prevOp.obj # lastOp.obj /\ prevOp.obj \in LiveObjs
    /\ ~UnbindRefused(egl.log)
    /\ egl.cur = NoBinding
\* C18: every surface and context the driver created for a create call is
\* destroyed once, in the step that drops the value holding it: a surface or
\* context that stops being live in a step belongs to the value dropped in
\* that step; no DestroySurface or DestroyContext call is made on a handle
\* that is no longer live; every live surface and context is held by a value
\* that is being built or is with its owner; nothing stays live once no such
\* value is left.
ReleasedInStep(o) == DroppedInStep(o) \/ FailedInStep(o)

Held(o) == o <= Len(objs) /\ objs[o].st \in {"building", "live"}

DestroyedByOwnerOnly ==
    /\ \A x \in egl.surfs \ egl'.surfs :
          \E o \in 1..MaxObjects : ReleasedInStep(o) /\ objs[o].surface = x
    /\ \A x \in egl.ctxs \ egl'.ctxs :
          \E o \in 1..MaxObjects : ReleasedInStep(o) /\ objs'[o].context = x

NoDoubleDestroy(log) ==
    \A i \in 1..Len(log) :
        log[i].op \in {"DestroySurface", "DestroyContext"} => log[i].ret = EGL_TRUE

NoOrphan ==
    /\ \A x \in egl.surfs : \E o \in 1..MaxObjects : Held(o) /\ objs[o].surface = x
    /\ \A x \in egl.ctxs : \E o \in 1..MaxObjects : Held(o) /\ objs[o].context = x

C18_DestroyedOnceByOwner ==
    [][DestroyedByOwnerOnly /\ NoDoubleDestroy(egl'.log) /\ NoOrphan']_vars
\* C19: the step in which a create that obtained the display returns
\* CreationFailed leaves every value that is with its owner as it was: its
\* fields unchanged, its display initialised and its surface and context
\* live if they were, and the thread's current binding the one it had (no
\* earlier step of a failing create changes the binding).
C19_FailedCreateKeepsOthers ==
    [][\A o \in 1..MaxObjects :
          (FailedInStep(o) /\ objs'[o].display # NO_DISPLAY /\ result' = "CreationFailed") =>
              /\ egl'.cur = egl.cur
              /\ \A p \in LiveObjs :
                    /\ objs'[p] = objs[p]
                    /\ ObjLive(egl, objs[p]) => ObjLive(egl', objs'[p])]_vars

\* C14: the CreateContext call of a create gets as share argument the
\* context field of the value given in conf.share, or the no-context
\* sentinel when none is given, and an attribute list asking for exactly
\* the major and minor version of the configuration; during the create the
\* shared value keeps its fields and its context is passed to no
\* MakeCurrent or DestroyContext call.
PassesContext(c, x) ==
    \/ c.op = "MakeCurrent" /\ c.args[4] = x
    \/ c.op = "DestroyContext" /\ c.args[2] = x

C16_AttributeList ==
    InCreate =>
        \A i \in 1..Len(egl.log) :
            egl.log[i].op = "ChooseConfig" =>
                LET a == egl.log[i].attribs
                    g == conf.gl
                IN /\ Len(a) = 12
                   /\ a[1] = <<"SURFACE_TYPE", WINDOW_BIT>>
                   /\ a[2] = <<"RENDERABLE_TYPE", OPENGL_ES2_BIT>>
                   /\ a[3] = <<"CONFORMANT", OPENGL_ES2_BIT>>
                   /\ a[4] = <<"RED_SIZE", g.red_bits>>
                   /\ a[5] = <<"GREEN_SIZE", g.green_bits>>
                   /\ a[6] = <<"BLUE_SIZE", g.blue_bits>>
                   /\ a[7] = <<"ALPHA_SIZE", g.alpha_bits>>
                   /\ a[8] = <<"DEPTH_SIZE", g.depth_bits>>
                   /\ a[9] = <<"STENCIL_SIZE", g.stencil_bits>>
                   /\ a[10] = <<"SAMPLE_BUFFERS", IF g.samples = None THEN 0 ELSE 1>>
                   /\ a[11] = <<"SAMPLES", IF g.samples = None THEN 0 ELSE g.samples[1]>>
                   /\ a[12] = <<"NONE">>

\* Enumeration asked with samples = Some(4).
C16_Witness ==
    /\ InCreate /\ conf.gl.samples = Some(4)
    /\ \E i \in 1..Len(egl.log) :
          /\ egl.log[i].op = "ChooseConfig"
          /\ egl.log[i].attribs[10] = <<"SAMPLE_BUFFERS", 1>>
          /\ egl.log[i].attribs[11] = <<"SAMPLES", 4>>

\* C15: every call of create ends, with Ok, ApiNotSupported,
\* InvalidWindowHandle or CreationFailed; within one call the surface-bind
\* attempts are never more than the candidates the driver returned, which
\* are never more than 64, and no candidate is attempted twice.
BindsAreBounded ==
    InCreate =>
        /\ Len(Binds) <= Len(configs)
        /\ Len(configs) <= ConfigCap
        /\ \A i, j \in 1..Len(Binds) : i # j => Binds[i].args[2] # Binds[j].args[2]
        /\ \A i \in 1..Len(Binds) : Binds[i].args[2] = configs[i]

CreateHasResult ==
    CreateReturned => result \in {"Ok"} \cup Errors

C15_CreateTerminates ==
    /\ [](BindsAreBounded /\ CreateHasResult)
    /\ (pc # "idle") ~> (CreateReturned /\ result \in {"Ok"} \cup Errors)

\* The driver matched more configurations than the array holds and every
\* bind failed: create gave up after exactly 64 attempts.
C15_Witness ==
    /\ CreateReturned /\ result = "CreationFailed"
    /\ Len(configs) = ConfigCap
    /\ Len(Binds) = ConfigCap
====
